---------------------------- MODULE Spec2Model ----------------------------
(***************************************************************************)
(* Model of the medicine question-answering agent:                          *)
(*   src/src/agent/agent.py   RAGAgentSystem (planner / executor /          *)
(*                            summarizer graph, run)                        *)
(*   src/main.py              session host (chatbot_interface, reset_chat)  *)
(*   src/src/agent/tools.py   the four retrieval tools                      *)
(*   src/src/database/        neo4j_graph_db.py, qdrant.py (the queries)    *)
(*                                                                          *)
(* Text handled by the parser is a sequence of tokens: the markers "Tool:"  *)
(* and "Query:", the pipe "|", the blank " " and words are one token each.  *)
(* Python values a tool returns are records [type, v]: a str is its token   *)
(* sequence, a list its element sequence, so truthiness is Len(v) > 0.      *)
(* Message contents (questions, answers) are opaque strings. Vietnamese     *)
(* literals are written without diacritics.                                 *)
(***************************************************************************)
EXTENDS Integers, Sequences, FiniteSets, TLC

\* ------------------------------------------------------------------ bounds
MaxLines == 4          \* lines in one planning response
MaxTurns == 2          \* turns started in one session (SpecSession)
MaxSessionLines == 1   \* lines in one planning response (SpecSession)
MaxParseLines == 3     \* lines in one planning response (SpecParse)
MaxIndications == 2    \* indication nodes of the graph (SpecTools)
MaxPassages == 1       \* passages of the vector collection (SpecTools)
MaxHostTurns == 1      \* turns started in one session (SpecHost)
MaxMemory == 3         \* messages in the memory (SpecOverlap)
MaxMedicines == 7      \* medicine nodes of the graph

\* ----------------------------------------------------------- Python values
NoneVal == "<None>"            \* Python None

PyStr(s)  == [type |-> "str",  v |-> s]
PyList(l) == [type |-> "list", v |-> l]

\* bool(x) for a str or a list: non-empty
Truthy(x) == Len(x.v) > 0

\* ------------------------------------------------------------ str helpers
RECURSIVE SplitFrom(_, _, _)
SplitFrom(s, i, cur) ==
    IF i > Len(s) THEN <<cur>>
    ELSE IF s[i] = "|" THEN <<cur>> \o SplitFrom(s, i + 1, <<>>)
    ELSE SplitFrom(s, i + 1, Append(cur, s[i]))

\* line.split("|")
SplitPipe(s) == SplitFrom(s, 1, <<>>)

\* marker in s
Contains(s, marker) == \E i \in 1..Len(s) : s[i] = marker

\* s.replace(marker, "")
Replace(s, marker) == SelectSeq(s, LAMBDA t : t # marker)

RECURSIVE LStrip(_)
LStrip(s) == IF s # <<>> /\ Head(s) = " " THEN LStrip(Tail(s)) ELSE s

RECURSIVE RStrip(_)
RStrip(s) ==
    IF s # <<>> /\ s[Len(s)] = " " THEN RStrip(SubSeq(s, 1, Len(s) - 1)) ELSE s

\* s.strip()
Strip(s) == RStrip(LStrip(s))

\* [p for p in parts if marker in p][0]
FirstWith(parts, marker) ==
    parts[CHOOSE i \in 1..Len(parts) :
            /\ Contains(parts[i], marker)
            /\ \A j \in 1..(i - 1) : ~Contains(parts[j], marker)]

\* ------------------------------------------------------------ the registry
tools ==
    { <<"search_by_name">>, <<"search_by_query">>,
      <<"recommend_alternatives">>, <<"recommend_by_indications">> }

\* ----------------------------------------------------------------- planner
\* one line of the response: does it qualify as a plan step
IsStepLine(line) == Contains(line, "Tool:") /\ Contains(line, "Query:")

\* the step a qualifying line yields
StepOf(line) ==
    LET parts      == SplitPipe(line)
        tool_part  == FirstWith(parts, "Tool:")
        query_part == FirstWith(parts, "Query:")
    IN  [tool  |-> Strip(Replace(tool_part, "Tool:")),
         query |-> Strip(Replace(query_part, "Query:"))]

RECURSIVE ParsePlan(_)
ParsePlan(lines) ==
    IF lines = <<>> THEN <<>>
    ELSE (IF IsStepLine(Head(lines)) THEN <<StepOf(Head(lines))>> ELSE <<>>)
         \o ParsePlan(Tail(lines))


\* what the language capability may answer to the planning prompt, line by line
PlannerLines ==
    { <<"Tool:", " ", "recommend_alternatives", "|", " ", "Query:", " ", "Naname">>,
      <<"Tool:", " ", "recommend_by_indications", "|", " ", "Query:", " ",
        "[", "\"sot\"", ",", " ", "\"dau dau\"", "]">>,
      <<"Tool:", " ", "recommend_by_indications", "|", " ", "Query:", " ", "sot">>,
      <<"Tool:", " ", "lookup_price", "|", " ", "Query:", " ", "Paracetamol">>,
      <<"Now", " ", "planning">> }

Responses == UNION { [1..n -> PlannerLines] : n \in 0..MaxLines }

\* the same for the turns of a whole session
SessionLines ==
    { <<"Tool:", " ", "search_by_name", "|", " ", "Query:", " ", "Paracetamol">>,
      <<"Tool:", " ", "search_by_query", "|", " ", "Query:", " ",
        "Cach", " ", "su", " ", "dung", " ", "thuoc", " ", "Panadol?">>,
      <<"Tool:", " ", "recommend_alternatives", "|", " ", "Query:", " ", "Naname">>,
      <<"Tool:", " ", "recommend_by_indications", "|", " ", "Query:", " ",
        "[", "\"sot\"", ",", " ", "\"dau dau\"", "]">>,
      <<"Tool:", " ", "lookup_price", "|", " ", "Query:", " ", "Paracetamol">> }

SessionResponses == UNION { [1..n -> SessionLines] : n \in 0..MaxSessionLines }

\* responses that exercise the line format: the markers in either order,
\* padded with blanks, with no pipe, with a pipe that is not between the
\* markers, with one marker only, with none
ParseLines ==
    { <<"Tool:", " ", "search_by_name", " ", "|", " ", "Query:", " ", "Paracetamol">>,
      <<"Query:", " ", "Panadol", " ", "|", " ", "Tool:", " ", "recommend_alternatives">>,
      <<" ", " ", "Tool:", " ", "search_by_query", "|", "Query:", " ", " ",
        "dau", " ", "dau", " ">>,
      <<"Tool:", " ", "search_by_name", " ", "Query:", " ", "Paracetamol">>,
      <<"Tool:", " ", "search_by_query", " ", "Query:", " ", "sot", " ", "|",
        " ", "ho">>,
      <<"Tool:", " ", "search_by_name", " ", "|", " ", "Paracetamol">>,
      <<"Now", " ", "planning">> }

ParseResponses == UNION { [1..n -> ParseLines] : n \in 0..MaxParseLines }

\* what the language capability may answer to the summarizing prompt
Answers == { "Helpful answer" }

\* what the user may ask
Questions == { "q1" }

\* the same for the turns of a whole session
SessionQuestions == { "q1", "q2" }

\* ---------------------------------------------------------------- executor
max_attempts == 3

Fallback == "Khong tim duoc du lieu huu ich sau 3 lan thu."

\* variant: an unknown tool gives the empty text
NotFoundEmpty(tool_name) == PyStr(<<>>)

\* f"Tool '{tool_name}' khong ton tai."
NotFound(tool_name) == PyStr(<<"Tool '">> \o tool_name \o <<"' khong ton tai.">>)

\* json.loads(query) for the texts that are a JSON array of strings
JsonString == [lit \in {"\"sot\"", "\"dau dau\""} |->
                 IF lit = "\"sot\"" THEN "sot" ELSE "dau dau"]

JsonTokens(query) == SelectSeq(query, LAMBDA t : t # " ")

IsJsonStrList(query) ==
    LET t == JsonTokens(query)
    IN  /\ Len(t) >= 2
        /\ t[1] = "["
        /\ t[Len(t)] = "]"
        /\ \/ Len(t) = 2
           \/ /\ Len(t) % 2 = 1
              /\ \A i \in 2..(Len(t) - 1) :
                    IF i % 2 = 0 THEN t[i] \in DOMAIN JsonString ELSE t[i] = ","

JsonLoads(query) ==
    LET t == JsonTokens(query)
    IN  [k \in 1..((Len(t) - 1) \div 2) |-> JsonString[t[2 * k]]]

\* variant: the indications tool receives the query string as it is
ToolInputRaw(tool_name, query) ==
    IF tool_name = <<"recommend_by_indications">>
    THEN [indications |-> query]
    ELSE [text |-> query]

\* the argument tool.run receives for a step
ToolInput(tool_name, query) ==
    IF tool_name = <<"recommend_by_indications">>
    THEN [indications |-> JsonLoads(query)]
    ELSE [text |-> query]

\* a step whose argument cannot be built: json.loads raises, or the decoded
\* value is no list of strings and tool.run rejects it
InputRaises(tool_name, query) ==
    tool_name = <<"recommend_by_indications">> /\ ~IsJsonStrList(query)

\* the values a registry tool may return (src/src/agent/tools.py)
SomeText == PyStr(<<"Ten: Panadol Mieu ta ngan: giam dau">>)

ToolReturns(tool_name) ==
    IF tool_name = <<"recommend_alternatives">>
    THEN { PyList(<<>>), PyStr(<<>>), SomeText }
    ELSE { PyStr(<<>>), SomeText }

\* variant: the ceiling is reached one step early
ForceEndOffByOne(index, res) ==
    /\ index + 2 >= max_attempts
    /\ SelectSeq(res, LAMBDA r : Truthy(r.result)) = <<>>

\* variant: only the latest result is looked at
ForceEndLastOnly(index, res) ==
    /\ index + 1 >= max_attempts
    /\ ~Truthy(res[Len(res)].result)

\* the forced-stop check made after a step's result is appended
ForceEnd(index, res) ==
    /\ index + 1 >= max_attempts
    /\ SelectSeq(res, LAMBDA r : Truthy(r.result)) = <<>>

\* variant: the forced stop is not looked at
should_continue_steps_only(ks, fe, index, p) ==
    (IF "current_index" \in ks THEN index ELSE 0)
        < (IF "plan" \in ks THEN Len(p) ELSE 0)

\* _should_continue; ks are the keys the state dict holds
should_continue(ks, fe, index, p) ==
    IF "force_end" \in ks /\ fe THEN FALSE
    ELSE (IF "current_index" \in ks THEN index ELSE 0)
            < (IF "plan" \in ks THEN Len(p) ELSE 0)

\* variant: the False edge leads to END
AfterExecutorSkipsSummarizer(ks, fe, index, p) ==
    IF should_continue(ks, fe, index, p) THEN "Executor" ELSE "END"

\* the conditional edge out of the Executor node
AfterExecutor(ks, fe, index, p) ==
    IF should_continue(ks, fe, index, p) THEN "Executor" ELSE "Summarizer"

\* variant: the listing holds the latest result only
ContextLatestOnly(res) ==
    IF res = <<>> THEN <<>>
    ELSE << <<res[Len(res)].query, res[Len(res)].result>> >>

\* the "- query: result" listing the summarizer prompt embeds
Context(res) == [i \in 1..Len(res) |-> <<res[i].query, res[i].result>>]

\* ------------------------------------------------------------- the stores
\* (src/src/database/neo4j_graph_db.py, qdrant.py, src/src/agent/tools.py)
\* In this part a name or a keyword is the sequence of its letters and a
\* JSON object (metadata) the sequence of its <<key, value>> items.
top_k == 5             \* results a graph tool lists
limit == 100           \* rows find_relations returns
min_match == 1         \* matches find_medicines_by_indications asks for
qdrant_k == 5          \* passages QdrantVectorStore.search returns

\* toLower
LowerCase == [c \in {"P", "H", "S"} |->
                IF c = "P" THEN "p" ELSE IF c = "H" THEN "h" ELSE "s"]

ToLower(s) ==
    [i \in 1..Len(s) |-> IF s[i] \in DOMAIN LowerCase THEN LowerCase[s[i]] ELSE s[i]]

\* s CONTAINS sub
StrContains(s, sub) ==
    \E i \in 0..(Len(s) - Len(sub)) : SubSeq(s, i + 1, i + Len(sub)) = sub

\* s[:n]
Take(s, n) == SubSeq(s, 1, IF Len(s) < n THEN Len(s) ELSE n)

\* d.get(key, default)
DictGet(d, key, default) ==
    IF \E i \in 1..Len(d) : d[i][1] = key
    THEN d[CHOOSE i \in 1..Len(d) : d[i][1] = key][2]
    ELSE default

\* the Entity nodes insert_to_db creates, in the order it creates them: a
\* medicine with its metadata, the type, indication and ingredient nodes with
\* none
RelTypes == <<"LOAI THUOC", "CHI DINH", "THANH PHAN">>

MedicineNames ==
    << <<"p", "a", "n">>, <<"e", "f", "a">>, <<"h", "a", "p">> >>

\* further medicines, none of them linked in the graphs of SpecTools
OtherMedicineNames ==
    << <<"t", "y", "l">>, <<"d", "e", "c">>, <<"i", "b", "u">>,
       <<"n", "u", "r">>, <<"a", "d", "v">>, <<"z", "i", "n">> >>

IndicationNames ==
    << <<"s", "o", "t">>, <<"h", "o">>, <<"d", "a", "u">>, <<"n", "o", "n">> >>

Medicine(n) ==
    [id       |-> <<"thuoc", n>>,
     name     |-> (MedicineNames \o OtherMedicineNames)[n],
     metadata |-> << <<"short_description", "giam dau">>, <<"price", "1000">> >>]

Attribute(rel_type, n, name) ==
    [id |-> <<rel_type, n>>, name |-> name, metadata |-> <<>>]

Medicines == [n \in 1..MaxMedicines |-> Medicine(n)]

Attributes ==
    <<Attribute("LOAI THUOC", 1, <<"g", "d">>)>>
    \o [n \in 1..MaxIndications |-> Attribute("CHI DINH", n, IndicationNames[n])]
    \o <<Attribute("THANH PHAN", 1, <<"p", "a", "r", "a">>)>>

Entities == <<Medicines[1]>> \o Attributes \o Tail(Medicines)

\* the RELATIONSHIP edges a graph may hold
Relationships ==
    { [source |-> Medicines[m].id, target |-> Attributes[a].id,
       type |-> Attributes[a].id[1]] :
        m \in 1..Len(MedicineNames), a \in 1..Len(Attributes) }

Graphs == SUBSET Relationships

\* graphs for the ranking: the first medicine has both of the first two
\* indications, every other medicine any of the two
IndicationEdge(m, a) ==
    [source |-> Medicines[m].id, target |-> <<"CHI DINH", a>>, type |-> "CHI DINH"]

RankGraphs ==
    { {IndicationEdge(1, 1), IndicationEdge(1, 2)}
        \cup { IndicationEdge(l[1], l[2]) : l \in links } :
      links \in SUBSET ((2..MaxMedicines) \X {1, 2}) }

\* the passages of the vector collection, nearest to the query first
Passages == [n \in 1..MaxPassages |-> <<"passage">>]

Collections == { Take(Passages, n) : n \in 0..MaxPassages }

\* what the tools are asked
Keywords == { <<"P", "a">>, <<"h", "a">>, <<"x">> }

IndicationLists == { << <<"s">> >>, << <<"x">> >>, << <<"S", "o">>, <<"o">> >> }

VectorQueries == { <<"dau", " ", "dau", "|", "sot">> }

\* Neo4j.find_medicine_regex, case_insensitive
find_medicine_regex(pattern) ==
    SelectSeq(Entities, LAMBDA d : StrContains(ToLower(d.name), ToLower(pattern)))

\* Neo4j.find_relations over the edges g
find_relations(g, start_id, rel_type, direction) ==
    Take(SelectSeq(Entities, LAMBDA m :
            IF direction = "out"
            THEN [source |-> start_id, target |-> m.id, type |-> rel_type] \in g
            ELSE [source |-> m.id, target |-> start_id, type |-> rel_type] \in g),
         limit)

\* Neo4j.find_medicines_by_indications: one row per keyword and matching
\* indication edge, counted per medicine
MatchCount(g, d, indications) ==
    Cardinality({ pa \in (1..Len(indications)) \X (1..Len(Entities)) :
        /\ [source |-> d.id, target |-> Entities[pa[2]].id, type |-> "CHI DINH"] \in g
        /\ StrContains(ToLower(Entities[pa[2]].name), ToLower(indications[pa[1]])) })

RECURSIVE ByMatchCountFrom(_, _)
ByMatchCountFrom(rows, n) ==
    IF n = 0 THEN <<>>
    ELSE SelectSeq(rows, LAMBDA r : r.match_count = n) \o ByMatchCountFrom(rows, n - 1)

find_medicines_by_indications(g, indications) ==
    LET counted == [i \in 1..Len(Entities) |->
                      [medicine    |-> Entities[i],
                       match_count |-> MatchCount(g, Entities[i], indications)]]
        rows    == SelectSeq(counted, LAMBDA r : r.match_count >= min_match)
    IN  ByMatchCountFrom(rows, Len(indications) * Len(Entities))

\* QdrantVectorStore.search over the collection c
search(c, query) == Take(c, qdrant_k)

\* "  ".join(f"{key} : {value}" for key, value in d.items())
RECURSIVE JoinItems(_)
JoinItems(d) ==
    IF d = <<>> THEN <<>>
    ELSE <<d[1][1], " : ", d[1][2]>>
         \o (IF Len(d) > 1 THEN <<"  ">> ELSE <<>>) \o JoinItems(Tail(d))

\* search_by_name
RECURSIVE NameText(_)
NameText(result) ==
    IF result = <<>> THEN <<>>
    ELSE result[1].name \o JoinItems(result[1].metadata) \o <<" \n ">>
         \o NameText(Tail(result))

search_by_name(user_query) ==
    PyStr(NameText(Take(find_medicine_regex(user_query), top_k)))

\* search_by_query
RECURSIVE PayloadText(_)
PayloadText(vector_result) ==
    IF vector_result = <<>> THEN <<>>
    ELSE vector_result[1] \o <<"\n">> \o PayloadText(Tail(vector_result))

search_by_query(c, user_query) ==
    PyStr(PayloadText(search(c, SplitPipe(user_query)[1])))

\* recommend_alternatives: the medicines reached back from the nodes, list
\* after list
RECURSIVE Alts(_, _, _)
Alts(g, nodes, rel_type) ==
    IF nodes = <<>> THEN <<>>
    ELSE find_relations(g, nodes[1].id, rel_type, "in") \o Alts(g, Tail(nodes), rel_type)

\* the keys of the scores dict, in insertion order
RECURSIVE Names(_)
Names(listing) ==
    IF listing = <<>> THEN <<>>
    ELSE LET rest == Names(SubSeq(listing, 1, Len(listing) - 1))
             name == listing[Len(listing)].name
         IN  IF \E i \in 1..Len(rest) : rest[i] = name THEN rest
             ELSE Append(rest, name)

\* scores[name][0] after the three loops: one point each time the name is
\* listed
Score(listing, name) ==
    Cardinality({ i \in 1..Len(listing) : listing[i].name = name })

\* scores[name][1]
MetadataOf(listing, name) ==
    listing[CHOOSE i \in 1..Len(listing) :
              /\ listing[i].name = name
              /\ \A j \in (i + 1)..Len(listing) : listing[j].name # name].metadata

\* variant: a sort that turns the entries of equal score around
RECURSIVE ByScoreTiesReversed(_, _)
ByScoreTiesReversed(recs, n) ==
    IF n = 0 THEN <<>>
    ELSE LET tied == SelectSeq(recs, LAMBDA r : r.score = n)
         IN  [i \in 1..Len(tied) |-> tied[Len(tied) + 1 - i]]
             \o ByScoreTiesReversed(recs, n - 1)

\* recs.sort(key=lambda x: -x["score"]), a stable sort
RECURSIVE ByScoreFrom(_, _)
ByScoreFrom(recs, n) ==
    IF n = 0 THEN <<>>
    ELSE SelectSeq(recs, LAMBDA r : r.score = n) \o ByScoreFrom(recs, n - 1)

\* recs of recommend_alternatives for the target medicine
Recs(g, medicine) ==
    LET medicine_id == medicine.id
        types   == find_relations(g, medicine_id, "LOAI THUOC", "out")
        inds    == find_relations(g, medicine_id, "CHI DINH", "out")
        ingres  == find_relations(g, medicine_id, "THANH PHAN", "out")
        listing == SelectSeq(Alts(g, types, "LOAI THUOC") \o Alts(g, inds, "CHI DINH")
                               \o Alts(g, ingres, "THANH PHAN"),
                             LAMBDA m : m.id # medicine_id)
        names   == Names(listing)
        recs    == [i \in 1..Len(names) |->
                      [name     |-> names[i],
                       score    |-> Score(listing, names[i]),
                       metadata |-> MetadataOf(listing, names[i])]]
    IN  ByScoreFrom(recs, Len(listing))

RECURSIVE RecsText(_)
RecsText(recs) ==
    IF recs = <<>> THEN <<>>
    ELSE <<"Ten:", " ">> \o recs[1].name \o <<" ", "Mieu ta ngan:", " ",
           DictGet(recs[1].metadata, "short_description", ""), "\n">>
         \o RecsText(Tail(recs))

\* variant: the target is taken without looking whether one was found
recommend_alternatives_unguarded(g, keyword) ==
    LET candidates == find_medicine_regex(keyword)
    IN  IF candidates = <<>>
        THEN [out |-> [type |-> "IndexError", v |-> <<>>], recs |-> <<>>]
        ELSE [out  |-> PyStr(RecsText(Take(Recs(g, candidates[1]), top_k))),
              recs |-> Recs(g, candidates[1])]

\* recommend_alternatives: what it returns, and the recs it ranked
recommend_alternatives(g, keyword) ==
    LET candidates == find_medicine_regex(keyword)
    IN  IF candidates = <<>>
        THEN [out |-> PyList(<<>>), recs |-> <<>>]
        ELSE [out  |-> PyStr(RecsText(Take(Recs(g, candidates[1]), top_k))),
              recs |-> Recs(g, candidates[1])]

\* recommend_by_indications
RECURSIVE IndicationsText(_)
IndicationsText(data) ==
    IF data = <<>> THEN <<>>
    ELSE LET medicine_infor == data[1].medicine
         IN  <<"Ten:", " ">> \o medicine_infor.name \o <<" ", "Mieu ta ngan:", " ",
               DictGet(medicine_infor.metadata, "short_description", ""),
               "Thanh phan:", " ",
               DictGet(medicine_infor.metadata, "ingredient", ""), "\n">>
             \o IndicationsText(Tail(data))

recommend_by_indications(g, indications) ==
    PyStr(IndicationsText(Take(find_medicines_by_indications(g, indications), top_k)))

\* ------------------------------------------------------------------- state
VARIABLES
    memory,           \* self.memory.chat_memory.messages
    chat_histories,   \* chat_histories[session_id] of the host
    pc,               \* where the turn in flight is
    rebound,          \* reset_chat ran during the turn in flight
    keys,             \* the keys the state dict of the graph holds
    question, chat_history, plan, results, current_index,
    force_end, final_answer, done,          \* their values
    calls,            \* the tool.run invocations of the turn, in order
    llm_calls,        \* self.llm.invoke calls of the turn
    summaries,        \* summarizer node entries of the turn
    context,          \* the context the summarizer built
    raised_in,        \* node whose exception ended the turn
    turns,            \* turns started
    completed,        \* turns completed since the last reset
    mem_before, hist_before,  \* memory and host history when the turn began
    since_reset,      \* turns started since the session began or was reset
    shown,            \* the chat list the host last returned to the page
    session_id,       \* the session the variables above belong to
    parked,           \* the same state of every other session
    neo4j,            \* the RELATIONSHIP edges of the graph store
    qdrant,           \* the passages of the vector store
    tool_run          \* the tool function that ran: input, output, recs

stateVars == <<keys, question, chat_history, plan, results, current_index,
               force_end, final_answer, done>>
turnObs   == <<calls, llm_calls, summaries, context, raised_in>>
sessionVars == <<memory, chat_histories, pc, rebound, stateVars, turnObs,
                 turns, completed, mem_before, hist_before, since_reset, shown>>
hostVars  == <<session_id, parked>>
storeVars == <<neo4j, qdrant, tool_run>>
vars == <<sessionVars, hostVars, storeVars>>

HumanMessage(c) == [type |-> "human", content |-> c]
AIMessage(c)    == [type |-> "ai", content |-> c]

\* no state dict: the values of a key the dict does not hold are placeholders
NoState ==
    /\ keys = {}
    /\ question = "" /\ chat_history = <<>> /\ plan = <<>>
    /\ results = <<>> /\ current_index = 0 /\ force_end = FALSE
    /\ final_answer = NoneVal /\ done = FALSE

NoTurn ==
    /\ NoState
    /\ calls = <<>> /\ llm_calls = 0 /\ summaries = 0
    /\ context = <<>> /\ raised_in = ""

\* a session that has completed no turn, or one turn
PriorTurns == { <<>>, <<[question |-> "q0", answer |-> "Helpful answer"]>> }

MemoryOf(prior) ==
    IF prior = <<>> THEN <<>>
    ELSE <<HumanMessage(prior[1].question), AIMessage(prior[1].answer)>>

HostOf(prior) ==
    IF prior = <<>> THEN <<>> ELSE << <<prior[1].question, prior[1].answer>> >>

\* the sessions of the host (keys of chat_histories and rag_agents)
Sessions == { "s1", "s2" }

\* the state of the session the session variables hold
SessionState ==
    [memory |-> memory, chat_histories |-> chat_histories, pc |-> pc,
     rebound |-> rebound, keys |-> keys, question |-> question,
     chat_history |-> chat_history, plan |-> plan, results |-> results,
     current_index |-> current_index, force_end |-> force_end,
     final_answer |-> final_answer, done |-> done, calls |-> calls,
     llm_calls |-> llm_calls, summaries |-> summaries, context |-> context,
     raised_in |-> raised_in, turns |-> turns, completed |-> completed,
     mem_before |-> mem_before, hist_before |-> hist_before,
     since_reset |-> since_reset, shown |-> shown]

\* the state init_session gives a session
NewSession ==
    [memory |-> <<>>, chat_histories |-> <<>>, pc |-> "idle",
     rebound |-> FALSE, keys |-> {}, question |-> "",
     chat_history |-> <<>>, plan |-> <<>>, results |-> <<>>,
     current_index |-> 0, force_end |-> FALSE,
     final_answer |-> NoneVal, done |-> FALSE, calls |-> <<>>,
     llm_calls |-> 0, summaries |-> 0, context |-> <<>>,
     raised_in |-> "", turns |-> 0, completed |-> 0,
     mem_before |-> <<>>, hist_before |-> <<>>,
     since_reset |-> 0, shown |-> <<>>]

\* no tool function ran
NoRun == [tool |-> <<>>, input |-> <<>>, out |-> PyStr(<<>>), recs |-> <<>>]

\* a session that is served, the other sessions new, no tool function run
InitHost(prior) ==
    /\ memory = MemoryOf(prior)
    /\ chat_histories = HostOf(prior)
    /\ pc = "idle"
    /\ rebound = FALSE
    /\ NoTurn
    /\ turns = 0
    /\ completed = Len(prior)
    /\ mem_before = memory
    /\ hist_before = chat_histories
    /\ since_reset = Len(prior)
    /\ shown = chat_histories
    /\ session_id = "s1"
    /\ parked = [s \in Sessions \ {"s1"} |-> NewSession]
    /\ tool_run = NoRun

\* the same, the stores left out of the picture: a turn's tool results are
\* drawn from ToolReturns
InitWith(prior) ==
    /\ InitHost(prior)
    /\ neo4j = {}
    /\ qdrant = <<>>

\* one turn, in a session that is new or holds an earlier turn
Init == \E prior \in PriorTurns : InitWith(prior)

\* a new session (init_session)
InitSession == InitWith(<<>>)

\* ------------------------------------------------------------------- run()
\* variant: the question is not appended to the memory
StartTurnNoAppend(q) ==
    /\ pc = "idle"
    /\ turns' = turns + 1
    /\ mem_before' = memory
    /\ hist_before' = chat_histories
    /\ keys' = {"question", "chat_history"}
    /\ question' = q
    /\ chat_history' = memory
    /\ pc' = "Planner"
    /\ rebound' = FALSE
    /\ UNCHANGED <<memory, chat_histories, plan, results, current_index,
                   force_end, final_answer, done, turnObs, completed>>
    /\ since_reset' = since_reset + 1
    /\ UNCHANGED <<shown, hostVars, storeVars>>

\* chatbot_interface calls agent.run: the question is appended to the memory
\* and the state dict is built around the memory's message list
StartTurn(q) ==
    /\ pc = "idle"
    /\ turns' = turns + 1
    /\ mem_before' = memory
    /\ hist_before' = chat_histories
    /\ memory' = Append(memory, HumanMessage(q))
    /\ keys' = {"question", "chat_history"}
    /\ question' = q
    /\ chat_history' = memory'
    /\ pc' = "Planner"
    /\ rebound' = FALSE
    /\ UNCHANGED <<chat_histories, plan, results, current_index, force_end,
                   final_answer, done, turnObs, completed>>
    /\ since_reset' = since_reset + 1
    /\ UNCHANGED <<shown, hostVars, storeVars>>

\* _planner_node, the capability answers
PlannerNode(response) ==
    /\ pc = "Planner"
    /\ llm_calls' = llm_calls + 1
    /\ plan' = ParsePlan(response)
    /\ results' = <<>>
    /\ current_index' = 0
    /\ keys' = keys \cup {"plan", "results", "current_index"}
    /\ pc' = "Executor"
    /\ UNCHANGED <<memory, chat_histories, rebound, question, chat_history,
                   force_end, final_answer, done, calls, summaries, context,
                   raised_in, turns, completed, mem_before, hist_before>>
    /\ UNCHANGED <<since_reset, shown, hostVars, storeVars>>

\* _planner_node, the capability call raises
PlannerRaises ==
    /\ pc = "Planner"
    /\ llm_calls' = llm_calls + 1
    /\ raised_in' = "Planner"
    /\ pc' = "raised"
    /\ UNCHANGED <<memory, chat_histories, rebound, stateVars, calls,
                   summaries, context, turns, completed, mem_before,
                   hist_before>>
    /\ UNCHANGED <<since_reset, shown, hostVars, storeVars>>

\* variant: the exhausted entry moves the cursor on
ExecutorExhaustedAdvances ==
    /\ pc = "Executor"
    /\ current_index >= Len(plan)
    /\ done' = TRUE
    /\ current_index' = current_index + 1
    /\ keys' = keys \cup {"done"}
    /\ pc' = AfterExecutor(keys', force_end, current_index, plan)
    /\ UNCHANGED <<memory, chat_histories, rebound, question, chat_history,
                   plan, results, force_end, final_answer,
                   turnObs, turns, completed, mem_before, hist_before>>
    /\ UNCHANGED <<since_reset, shown, hostVars, storeVars>>

\* _executor_node entered with the plan exhausted: {**state, "done": True}
ExecutorExhausted ==
    /\ pc = "Executor"
    /\ current_index >= Len(plan)
    /\ done' = TRUE
    /\ keys' = keys \cup {"done"}
    /\ pc' = AfterExecutor(keys', force_end, current_index, plan)
    /\ UNCHANGED <<memory, chat_histories, rebound, question, chat_history,
                   plan, results, current_index, force_end, final_answer,
                   turnObs, turns, completed, mem_before, hist_before>>
    /\ UNCHANGED <<since_reset, shown, hostVars, storeVars>>

\* variant: the cursor moves on by two
RecordResultSkipsStep(tool_name, query, result) ==
    LET index == current_index
    IN  /\ results' = Append(results,
                        [tool |-> tool_name, query |-> query, result |-> result])
        /\ force_end' = ForceEnd(index, results')
        /\ final_answer' = IF force_end' THEN Fallback ELSE NoneVal
        /\ current_index' = index + 2
        /\ keys' = keys \cup {"force_end", "final_answer"}
        /\ pc' = AfterExecutor(keys', force_end', current_index', plan)

\* variant: the result is written over the latest entry of the buffer
RecordResultOverwrites(tool_name, query, result) ==
    LET index == current_index
        entry == [tool |-> tool_name, query |-> query, result |-> result]
    IN  /\ results' = IF results = <<>> THEN <<entry>>
                      ELSE [results EXCEPT ![Len(results)] = entry]
        /\ force_end' = ForceEnd(index, results')
        /\ final_answer' = IF force_end' THEN Fallback ELSE NoneVal
        /\ current_index' = index + 1
        /\ keys' = keys \cup {"force_end", "final_answer"}
        /\ pc' = AfterExecutor(keys', force_end', current_index', plan)

\* the tail of _executor_node once the step's result is known
RecordResult(tool_name, query, result) ==
    LET index == current_index
    IN  /\ results' = Append(results,
                        [tool |-> tool_name, query |-> query, result |-> result])
        /\ force_end' = ForceEnd(index, results')
        /\ final_answer' = IF force_end' THEN Fallback ELSE NoneVal
        /\ current_index' = index + 1
        /\ keys' = keys \cup {"force_end", "final_answer"}
        /\ pc' = AfterExecutor(keys', force_end', current_index', plan)

\* variant: the registry lookup raises KeyError
ExecutorUnknownToolKeyError ==
    /\ pc = "Executor"
    /\ current_index < Len(plan)
    /\ plan[current_index + 1].tool \notin tools
    /\ raised_in' = "Executor"
    /\ pc' = "raised"
    /\ UNCHANGED <<memory, chat_histories, rebound, stateVars, calls,
                   llm_calls, summaries, context, turns, completed,
                   mem_before, hist_before>>
    /\ UNCHANGED <<since_reset, shown, hostVars, storeVars>>

\* _executor_node on a step whose tool is not in the registry
ExecutorUnknownTool ==
    /\ pc = "Executor"
    /\ current_index < Len(plan)
    /\ LET step == plan[current_index + 1]
       IN  /\ step.tool \notin tools
           /\ RecordResult(step.tool, step.query, NotFound(step.tool))
    /\ UNCHANGED <<memory, chat_histories, rebound, question, chat_history,
                   plan, done, turnObs, turns, completed, mem_before,
                   hist_before>>
    /\ UNCHANGED <<since_reset, shown, hostVars, storeVars>>

\* _executor_node on a registry tool that returns
ExecutorToolReturns ==
    /\ pc = "Executor"
    /\ current_index < Len(plan)
    /\ LET step == plan[current_index + 1]
       IN  /\ step.tool \in tools
           /\ ~InputRaises(step.tool, step.query)
           /\ calls' = Append(calls, [tool  |-> step.tool,
                                      input |-> ToolInput(step.tool, step.query)])
           /\ \E result \in ToolReturns(step.tool) :
                 RecordResult(step.tool, step.query, result)
    /\ UNCHANGED <<memory, chat_histories, rebound, question, chat_history,
                   plan, done, llm_calls, summaries, context, raised_in,
                   turns, completed, mem_before, hist_before>>
    /\ UNCHANGED <<since_reset, shown, hostVars, storeVars>>

\* _executor_node on a registry tool whose store call raises: nothing catches
\* the exception, it leaves the node, the graph and run()
ExecutorToolRaises ==
    /\ pc = "Executor"
    /\ current_index < Len(plan)
    /\ LET step == plan[current_index + 1]
       IN  /\ step.tool \in tools
           /\ ~InputRaises(step.tool, step.query)
           /\ calls' = Append(calls, [tool  |-> step.tool,
                                      input |-> ToolInput(step.tool, step.query)])
    /\ raised_in' = "Executor"
    /\ pc' = "raised"
    /\ UNCHANGED <<memory, chat_histories, rebound, stateVars, llm_calls,
                   summaries, context, turns, completed, mem_before,
                   hist_before>>
    /\ UNCHANGED <<since_reset, shown, hostVars, storeVars>>

\* _executor_node on an indications step whose query does not decode
ExecutorInputRaises ==
    /\ pc = "Executor"
    /\ current_index < Len(plan)
    /\ LET step == plan[current_index + 1]
       IN  /\ step.tool \in tools
           /\ InputRaises(step.tool, step.query)
    /\ raised_in' = "Executor"
    /\ pc' = "raised"
    /\ UNCHANGED <<memory, chat_histories, rebound, stateVars, calls,
                   llm_calls, summaries, context, turns, completed,
                   mem_before, hist_before>>
    /\ UNCHANGED <<since_reset, shown, hostVars, storeVars>>

\* _summarizer_node, the capability answers
SummarizerNode(answer) ==
    /\ pc = "Summarizer"
    /\ summaries' = summaries + 1
    /\ context' = Context(results)
    /\ llm_calls' = llm_calls + 1
    /\ final_answer' = answer
    /\ keys' = keys \cup {"final_answer"}
    /\ pc' = "END"
    /\ UNCHANGED <<memory, chat_histories, rebound, question, chat_history,
                   plan, results, current_index, force_end, done, calls,
                   raised_in, turns, completed, mem_before, hist_before>>
    /\ UNCHANGED <<since_reset, shown, hostVars, storeVars>>

\* variant: the failure is swallowed and the graph ends without an answer
SummarizerRaisesSwallowed ==
    /\ pc = "Summarizer"
    /\ summaries' = summaries + 1
    /\ context' = Context(results)
    /\ llm_calls' = llm_calls + 1
    /\ raised_in' = "Summarizer"
    /\ pc' = "END"
    /\ UNCHANGED <<memory, chat_histories, rebound, stateVars, calls, turns,
                   completed, mem_before, hist_before>>
    /\ UNCHANGED <<since_reset, shown, hostVars, storeVars>>

\* _summarizer_node, the capability call raises
SummarizerRaises ==
    /\ pc = "Summarizer"
    /\ summaries' = summaries + 1
    /\ context' = Context(results)
    /\ llm_calls' = llm_calls + 1
    /\ raised_in' = "Summarizer"
    /\ pc' = "raised"
    /\ UNCHANGED <<memory, chat_histories, rebound, stateVars, calls, turns,
                   completed, mem_before, hist_before>>
    /\ UNCHANGED <<since_reset, shown, hostVars, storeVars>>

\* result_state.get("final_answer", "Khong co ket qua.")
\* variant: the answer is looked up under a key the state dict never holds
ReturnedAnswerDefault == "Khong co ket qua."

ReturnedAnswer == IF "final_answer" \in keys THEN final_answer ELSE "Khong co ket qua."

\* variant: the state dict is kept on the agent and used again
EndTurnKeepsState ==
    /\ keys' = keys
    /\ question' = question /\ chat_history' = chat_history /\ plan' = plan
    /\ results' = results /\ current_index' = current_index
    /\ force_end' = force_end
    /\ final_answer' = final_answer /\ done' = done
    /\ calls' = <<>> /\ llm_calls' = 0 /\ summaries' = 0
    /\ context' = <<>> /\ raised_in' = ""
    /\ rebound' = FALSE
    /\ pc' = "idle"

\* the turn is over: the state dict and the per-turn records are dropped
EndTurn ==
    /\ keys' = {}
    /\ question' = "" /\ chat_history' = <<>> /\ plan' = <<>>
    /\ results' = <<>> /\ current_index' = 0 /\ force_end' = FALSE
    /\ final_answer' = NoneVal /\ done' = FALSE
    /\ calls' = <<>> /\ llm_calls' = 0 /\ summaries' = 0
    /\ context' = <<>> /\ raised_in' = ""
    /\ rebound' = FALSE
    /\ pc' = "idle"

\* the graph ended: run() appends the answer to the memory and returns it,
\* chatbot_interface appends the pair to the list it read before the turn
RunReturns ==
    /\ pc = "END"
    /\ memory' = Append(memory, AIMessage(ReturnedAnswer))
    /\ chat_histories' = IF rebound THEN chat_histories
                         ELSE Append(chat_histories, <<question, ReturnedAnswer>>)
    /\ completed' = completed + 1
    /\ EndTurn
    /\ UNCHANGED <<turns, mem_before, hist_before>>
    /\ shown' = Append(hist_before, <<question, ReturnedAnswer>>)
    /\ UNCHANGED <<since_reset, hostVars, storeVars>>

\* the exception leaves run() and chatbot_interface
RunRaises ==
    /\ pc = "raised"
    /\ EndTurn
    /\ UNCHANGED <<memory, chat_histories, turns, completed, mem_before,
                   hist_before>>
    /\ UNCHANGED <<since_reset, shown, hostVars, storeVars>>

\* variant: the whole chat_histories dict is emptied
ResetChatEverySession ==
    /\ \/ memory # <<>> \/ chat_histories # <<>> \/ completed # 0
       \/ since_reset # 0 \/ shown # <<>>
    /\ chat_histories' = <<>>
    /\ memory' = <<>>
    /\ rebound' = (pc # "idle")
    /\ completed' = 0
    /\ UNCHANGED <<pc, stateVars, turnObs, turns, mem_before, hist_before>>
    /\ since_reset' = 0
    /\ shown' = <<>>
    /\ parked' = [s \in DOMAIN parked |->
                    [parked[s] EXCEPT !.chat_histories = <<>>]]
    /\ UNCHANGED <<session_id, storeVars>>

\* reset_chat
ResetChat ==
    /\ \/ memory # <<>> \/ chat_histories # <<>> \/ completed # 0
       \/ since_reset # 0 \/ shown # <<>>
    /\ chat_histories' = <<>>
    /\ memory' = <<>>
    /\ rebound' = (pc # "idle")
    /\ completed' = 0
    /\ UNCHANGED <<pc, stateVars, turnObs, turns, mem_before, hist_before>>
    /\ since_reset' = 0
    /\ shown' = <<>>
    /\ UNCHANGED <<hostVars, storeVars>>

\* a second call of run() for the same session, made while the turn is in
\* flight, appends its message to the memory: the list the state dict holds
\* as chat_history is that very list unless reset_chat has replaced it
OverlappingTurnAppends(msg) ==
    /\ pc \in {"Planner", "Executor", "Summarizer", "END"}
    /\ Len(memory) < MaxMemory
    /\ memory' = Append(memory, msg)
    /\ chat_history' = IF rebound THEN chat_history ELSE Append(chat_history, msg)
    /\ UNCHANGED <<chat_histories, pc, rebound, keys, question, plan, results,
                   current_index, force_end, final_answer, done, turnObs,
                   turns, completed, mem_before, hist_before>>
    /\ UNCHANGED <<since_reset, shown, hostVars, storeVars>>

\* the host turns to another session: chat_histories[sid], rag_agents[sid]
Switch(sid) ==
    /\ sid \in Sessions \ {session_id}
    /\ session_id' = sid
    /\ parked' = [s \in Sessions \ {sid} |->
                    IF s = session_id THEN SessionState ELSE parked[s]]
    /\ memory' = parked[sid].memory
    /\ chat_histories' = parked[sid].chat_histories
    /\ pc' = parked[sid].pc
    /\ rebound' = parked[sid].rebound
    /\ keys' = parked[sid].keys
    /\ question' = parked[sid].question
    /\ chat_history' = parked[sid].chat_history
    /\ plan' = parked[sid].plan
    /\ results' = parked[sid].results
    /\ current_index' = parked[sid].current_index
    /\ force_end' = parked[sid].force_end
    /\ final_answer' = parked[sid].final_answer
    /\ done' = parked[sid].done
    /\ calls' = parked[sid].calls
    /\ llm_calls' = parked[sid].llm_calls
    /\ summaries' = parked[sid].summaries
    /\ context' = parked[sid].context
    /\ raised_in' = parked[sid].raised_in
    /\ turns' = parked[sid].turns
    /\ completed' = parked[sid].completed
    /\ mem_before' = parked[sid].mem_before
    /\ hist_before' = parked[sid].hist_before
    /\ since_reset' = parked[sid].since_reset
    /\ shown' = parked[sid].shown
    /\ UNCHANGED storeVars

\* a tool function runs on the stores
RunTool(tool_name, input, returned) ==
    /\ tool_run.tool = <<>>
    /\ tool_run' = [tool |-> tool_name, input |-> input,
                    out |-> returned.out, recs |-> returned.recs]
    /\ UNCHANGED <<sessionVars, hostVars, neo4j, qdrant>>

RunSearchByName ==
    \E user_query \in Keywords :
        RunTool(<<"search_by_name">>, user_query,
                [out |-> search_by_name(user_query), recs |-> <<>>])

RunSearchByQuery ==
    \E user_query \in VectorQueries :
        RunTool(<<"search_by_query">>, user_query,
                [out |-> search_by_query(qdrant, user_query), recs |-> <<>>])

RunRecommendAlternatives ==
    \E keyword \in Keywords :
        RunTool(<<"recommend_alternatives">>, keyword,
                recommend_alternatives(neo4j, keyword))

RunRecommendByIndications ==
    \E indications \in IndicationLists :
        RunTool(<<"recommend_by_indications">>, indications,
                [out  |-> recommend_by_indications(neo4j, indications),
                 recs |-> find_medicines_by_indications(neo4j, indications)])

\* one turn of a session: the control loop under every planning response
Next ==
    \/ \E q \in Questions : turns = 0 /\ StartTurn(q)
    \/ \E response \in Responses : PlannerNode(response)
    \/ PlannerRaises
    \/ ExecutorExhausted
    \/ ExecutorUnknownTool
    \/ ExecutorToolReturns
    \/ ExecutorToolRaises
    \/ ExecutorInputRaises
    \/ \E answer \in Answers : SummarizerNode(answer)
    \/ SummarizerRaises
    \/ RunReturns
    \/ RunRaises
    \/ ResetChat

Spec == Init /\ [][Next]_vars

\* the turns of a session, one after the other, under short plans
NextSession ==
    \/ \E q \in SessionQuestions : turns < MaxTurns /\ StartTurn(q)
    \/ \E response \in SessionResponses : PlannerNode(response)
    \/ PlannerRaises
    \/ ExecutorExhausted
    \/ ExecutorUnknownTool
    \/ ExecutorToolReturns
    \/ ExecutorToolRaises
    \/ \E answer \in Answers : SummarizerNode(answer)
    \/ SummarizerRaises
    \/ RunReturns
    \/ RunRaises
    \/ ResetChat

SpecSession == InitSession /\ [][NextSession]_vars

\* two sessions of one host, their turns and resets interleaved
HostResponses ==
    { <<>>,
      << <<"Tool:", " ", "search_by_name", "|", " ", "Query:", " ", "Paracetamol">> >> }

NextHost ==
    \/ \E sid \in Sessions : Switch(sid)
    \/ \E q \in Questions : turns < MaxHostTurns /\ StartTurn(q)
    \/ \E response \in HostResponses : PlannerNode(response)
    \/ PlannerRaises
    \/ ExecutorExhausted
    \/ ExecutorToolReturns
    \/ ExecutorToolRaises
    \/ \E answer \in Answers : SummarizerNode(answer)
    \/ SummarizerRaises
    \/ RunReturns
    \/ RunRaises
    \/ ResetChat

SpecHost == InitSession /\ [][NextHost]_vars

\* the four tool functions, each on every graph and collection
InitTools ==
    /\ InitHost(<<>>)
    /\ \/ neo4j \in Graphs /\ qdrant = <<>>
       \/ neo4j = {} /\ qdrant \in Collections

NextTools ==
    \/ RunSearchByName
    \/ RunSearchByQuery
    \/ RunRecommendAlternatives
    \/ RunRecommendByIndications

SpecTools == InitTools /\ [][NextTools]_vars

\* the two ranking tools on graphs with more medicines than a listing holds
InitRank ==
    /\ InitHost(<<>>)
    /\ neo4j \in RankGraphs /\ qdrant = <<>>

NextRank ==
    \/ RunRecommendAlternatives
    \/ RunRecommendByIndications

SpecRank == InitRank /\ [][NextRank]_vars

\* consecutive turns of a session, one of them able to end by the forced stop
TurnResponses ==
    LET byName == <<"Tool:", " ", "search_by_name", "|", " ", "Query:", " ", "Paracetamol">>
        byQuery == <<"Tool:", " ", "search_by_query", "|", " ", "Query:", " ",
                     "Cach", " ", "su", " ", "dung", " ", "thuoc", " ", "Panadol?">>
    IN  { <<>>, <<byQuery>>, <<byName, byQuery, byName>> }

NextTurns ==
    \/ \E q \in SessionQuestions : turns < MaxTurns /\ StartTurn(q)
    \/ \E response \in TurnResponses : PlannerNode(response)
    \/ PlannerRaises
    \/ ExecutorExhausted
    \/ ExecutorToolReturns
    \/ ExecutorToolRaises
    \/ \E answer \in Answers : SummarizerNode(answer)
    \/ SummarizerRaises
    \/ RunReturns
    \/ RunRaises

SpecTurns == InitSession /\ [][NextTurns]_vars

\* one turn of a session while further calls of run() for the same session
\* arrive
OverlappingMessages ==
    { HumanMessage(q) : q \in SessionQuestions } \cup { AIMessage(a) : a \in Answers }

NextOverlap ==
    \/ \E q \in Questions : turns = 0 /\ StartTurn(q)
    \/ \E response \in SessionResponses : PlannerNode(response)
    \/ PlannerRaises
    \/ ExecutorExhausted
    \/ ExecutorUnknownTool
    \/ ExecutorToolReturns
    \/ ExecutorToolRaises
    \/ \E answer \in Answers : SummarizerNode(answer)
    \/ SummarizerRaises
    \/ RunReturns
    \/ RunRaises
    \/ ResetChat
    \/ \E msg \in OverlappingMessages : OverlappingTurnAppends(msg)

SpecOverlap == InitSession /\ [][NextOverlap]_vars

\* the planner alone, under responses that exercise the line format
NextParse ==
    \/ \E q \in Questions : turns = 0 /\ StartTurn(q)
    \/ \E response \in ParseResponses : PlannerNode(response)

SpecParse == InitSession /\ [][NextParse]_vars

\* ============================================================== properties
HasPlan == "plan" \in keys

Empty3 == Len(results) >= 3 /\ \A i \in 1..3 : ~Truthy(results[i].result)

Useful3 == Len(results) >= 3 /\ \E i \in 1..3 : Truthy(results[i].result)

LoopLeft == pc \in {"Summarizer", "END"}

\* C1: in a turn whose plan has 3 or more steps and whose first 3 results are
\* all empty, the Summarizer is never invoked and the turn ends with the fixed
\* fallback text as its final answer.
C1_ForcedStopSkipsSummarizer ==
    (HasPlan /\ Len(plan) >= 3 /\ Empty3) =>
        /\ summaries = 0
        /\ pc = "END" => ReturnedAnswer = Fallback

\* C2: a registry tool whose store call raises does not abort the turn: the
\* Executor appends a result for the step, advances the cursor by one and
\* control stays in the graph.
C2_ToolFailureAbsorbed ==
    [][ExecutorToolRaises =>
          /\ pc' \in {"Executor", "Summarizer"}
          /\ Len(results') = Len(results) + 1
          /\ current_index' = current_index + 1]_vars

\* C3: a step whose tool is not a registry key invokes no tool and does not
\* raise: one result carrying the tool-not-found text is appended for that
\* step, the cursor advances by exactly one, and control returns to the
\* Executor as long as steps remain.
C3_UnknownToolRecorded ==
    [][(/\ pc = "Executor"
        /\ current_index < Len(plan)
        /\ plan[current_index + 1].tool \notin tools
        /\ (pc' # pc \/ current_index' # current_index \/ results' # results))
       =>
       LET step == plan[current_index + 1]
       IN  /\ calls' = calls
           /\ raised_in' = ""
           /\ Len(results') = Len(results) + 1
           /\ SubSeq(results', 1, Len(results)) = results
           /\ results'[Len(results')].tool = step.tool
           /\ results'[Len(results')].query = step.query
           /\ results'[Len(results')].result.type = "str"
           /\ Contains(results'[Len(results')].result.v, "' khong ton tai.")
           /\ current_index' = current_index + 1
           /\ pc' = IF current_index' < Len(plan) THEN "Executor"
                    ELSE "Summarizer"]_vars

C3_Witness ==
    /\ pc = "END"
    /\ Len(plan) = 3
    /\ Len(results) = 3
    /\ plan[2].tool \notin tools
    /\ Contains(results[2].result.v, "' khong ton tai.")
    /\ Len(calls) = 2

\* C4: for a plan of at most 2 steps the forced stop never triggers, whatever
\* the results: when control leaves the Executor loop every step has been
\* executed and the plan is exhausted.
C4_ShortPlanNeverForced ==
    (HasPlan /\ Len(plan) <= 2) =>
        /\ ~("force_end" \in keys /\ force_end)
        /\ final_answer # Fallback
        /\ LoopLeft => /\ current_index = Len(plan)
                       /\ Len(results) = Len(plan)

C4_Witness ==
    /\ pc = "Summarizer"
    /\ Len(plan) = 2
    /\ Len(results) = 2
    /\ \A i \in 1..2 : ~Truthy(results[i].result)

\* C5: once one of the first 3 results is non-empty the forced stop does not
\* trigger at step 3 nor at any later step, also when every later result is
\* empty: when control leaves the Executor loop the plan is exhausted.
C5_UsefulResultRunsToExhaustion ==
    (HasPlan /\ Useful3) =>
        /\ force_end = FALSE
        /\ final_answer # Fallback
        /\ pc = "Executor" => current_index < Len(plan)
        /\ LoopLeft => /\ current_index = Len(plan)
                       /\ Len(results) = Len(plan)

C5_Witness ==
    /\ pc = "END"
    /\ Len(plan) = 4
    /\ Len(results) = 4
    /\ Truthy(results[2].result)
    /\ \A i \in {1, 3, 4} : ~Truthy(results[i].result)

\* C6: with an empty plan no tool is invoked, the cursor stays 0 and the
\* results stay empty; control goes from the Executor to the Summarizer, which
\* runs once on an empty context, and the final answer is the Summarizer's.
C6_EmptyPlanStillSummarized ==
    (HasPlan /\ plan = <<>>) =>
        /\ calls = <<>>
        /\ current_index = 0
        /\ results = <<>>
        /\ summaries <= 1
        /\ pc \in {"Executor", "Summarizer", "END", "raised"}
        /\ pc = "Summarizer" => summaries = 0 /\ "done" \in keys
        /\ pc = "raised" => raised_in = "Summarizer"
        /\ pc = "END" => /\ summaries = 1
                         /\ context = <<>>
                         /\ ReturnedAnswer \in Answers

C6_Witness ==
    /\ pc = "END"
    /\ HasPlan
    /\ plan = <<>>
    /\ summaries = 1
    /\ calls = <<>>

C8_CapabilityFailureFailsTurn ==
    [][/\ (raised_in = "" /\ raised_in' \in {"Planner", "Summarizer"}) =>
            /\ pc' = "raised"
            /\ llm_calls' = llm_calls + 1
            /\ UNCHANGED <<memory, chat_histories, completed>>
       /\ (pc = "raised" /\ raised_in \in {"Planner", "Summarizer"}) =>
            /\ pc' \in {"raised", "idle"}
            /\ llm_calls' \in {llm_calls, 0}
            /\ memory' \in {memory, <<>>}
            /\ chat_histories' \in {chat_histories, <<>>}
            /\ completed' \in {completed, 0}]_vars

C8_Witness ==
    /\ pc = "raised"
    /\ raised_in = "Summarizer"
    /\ llm_calls = 2
    /\ summaries = 1
    /\ memory = Append(mem_before, HumanMessage(question))
    /\ chat_histories = hist_before

\* C9: after a turn that fails, the memory and the host's chat history are
\* exactly what they were before the turn began.
C9_FailedTurnLeavesNoTrace ==
    [][(pc = "raised" /\ pc' = "idle") =>
          /\ memory' = mem_before
          /\ chat_histories' = hist_before]_vars

\* C10: the plan handed to the Executor has at most 2 steps, so at most 2
\* steps are executed and at most 2 tools are invoked in a turn.
C10_AtMostTwoSteps ==
    HasPlan => /\ Len(plan) <= 2
               /\ current_index <= 2
               /\ Len(calls) <= 2

\* a pipe stands between a "Tool:" marker and a "Query:" marker of the line
PipeSeparated(line) ==
    \E i, j, k \in 1..Len(line) :
        /\ line[i] = "Tool:" /\ line[j] = "Query:" /\ line[k] = "|"
        /\ (i < k /\ k < j) \/ (j < k /\ k < i)

\* the plan the lines yield when only lines with a pipe between the two
\* markers count, each with its marker-stripped, trimmed parts
RECURSIVE PipeSeparatedPlan(_)
PipeSeparatedPlan(lines) ==
    IF lines = <<>> THEN <<>>
    ELSE (IF PipeSeparated(Head(lines))
          THEN <<[tool  |-> Strip(Replace(FirstWith(SplitPipe(Head(lines)), "Tool:"), "Tool:")),
                  query |-> Strip(Replace(FirstWith(SplitPipe(Head(lines)), "Query:"), "Query:"))]>>
          ELSE <<>>)
         \o PipeSeparatedPlan(Tail(lines))

\* C11: a line of the planning response yields a plan step if and only if it
\* holds a "Tool:" and a "Query:" marker separated by a pipe; every other line
\* (also one with both markers and no pipe between them) yields none; the
\* steps stand in line order with the marker-stripped, trimmed parts.
C11_StepIffPipeSeparatedMarkers ==
    [][(pc = "Planner" /\ pc' = "Executor") =>
          \E response \in ParseResponses :
              /\ PlannerNode(response)
              /\ plan' = PipeSeparatedPlan(response)]_vars

\* the steps of the turn that reached tool.run, in the order of their calls:
\* the registry steps already recorded and, after a tool raised, the step
\* under the cursor
InvokedSteps ==
    LET recorded == SelectSeq(results, LAMBDA r : r.tool \in tools)
    IN  IF Len(calls) > Len(recorded)
        THEN Append([i \in 1..Len(recorded) |->
                        [tool |-> recorded[i].tool, query |-> recorded[i].query]],
                    plan[current_index + 1])
        ELSE [i \in 1..Len(recorded) |->
                 [tool |-> recorded[i].tool, query |-> recorded[i].query]]

\* C12: a step for recommend_by_indications invokes the tool with the list
\* decoded from the step's query as a JSON array, never with the raw string;
\* a step for one of the other three tools invokes it with the query string
\* unchanged and undecoded.
C12_IndicationsDecodedOthersRaw ==
    /\ Len(calls) = Len(InvokedSteps)
    /\ \A i \in 1..Len(calls) :
          LET step == InvokedSteps[i]
          IN  /\ calls[i].tool = step.tool
              /\ IF step.tool = <<"recommend_by_indications">>
                 THEN /\ DOMAIN calls[i].input = {"indications"}
                      /\ calls[i].input.indications # step.query
                      /\ step.query = <<"[", "\"sot\"", ",", " ", "\"dau dau\"", "]">>
                            => calls[i].input.indications = <<"sot", "dau dau">>
                 ELSE /\ DOMAIN calls[i].input = {"text"}
                      /\ calls[i].input.text = step.query

C12_Witness ==
    /\ pc = "Summarizer"
    /\ Len(calls) = 1
    /\ calls[1].tool = <<"recommend_by_indications">>
    /\ calls[1].input.indications = <<"sot", "dau dau">>
    /\ results[1].query = <<"[", "\"sot\"", ",", " ", "\"dau dau\"", "]">>

\* C13: a reset clears the session's memory and the host's chat history for
\* it to empty whatever they held; the first turn started after a reset sees
\* no message of a turn from before the reset, its history is its own
\* question alone.
C13_ResetClearsAndNextTurnSeesNothing ==
    [][/\ ResetChat => (memory' = <<>> /\ chat_histories' = <<>>)
       /\ (pc = "idle" /\ pc' = "Planner" /\ since_reset = 0) =>
             chat_history' = <<HumanMessage(question')>>]_vars

\* C14: the turns of a session are serialized: a turn reads its history when
\* no other turn of the session is in flight, and the history it reads holds
\* both messages of every earlier turn, the user's followed by the
\* assistant's, and then its own question.
C14_HistoryHoldsBothMessagesOfEarlierTurns ==
    "chat_history" \in keys =>
        /\ pc \in {"Planner", "Executor", "Summarizer", "END", "raised"}
        /\ Len(chat_history) % 2 = 1
        /\ chat_history[Len(chat_history)] = HumanMessage(question)
        /\ \A i \in 1..Len(chat_history) :
              chat_history[i].type = (IF i % 2 = 1 THEN "human" ELSE "ai")

\* the state of session s, served or not
StateOf(s) == IF s = session_id THEN SessionState ELSE parked[s]

\* C15: sessions are independent: under any interleaving of the turns and
\* resets of different sessions, a step of a turn or a reset of one session
\* leaves the memory, the host chat history and the turn state of every other
\* session as they were.
C15_SessionsIndependent ==
    [][\A s \in Sessions :
          StateOf(s)' # StateOf(s) => (s = session_id /\ session_id' = session_id)]_vars

C15_Witness ==
    /\ session_id = "s2"
    /\ pc = "idle"
    /\ since_reset = 0
    /\ memory = <<>>
    /\ turns = 1
    /\ parked["s1"].pc = "Summarizer"
    /\ parked["s1"].memory = <<HumanMessage("q1")>>
    /\ parked["s1"].results # <<>>

\* C16: a turn that completes yields exactly one assistant message, whose
\* content is the Summarizer's output or the fixed fallback text; the text the
\* entry point returns is that content, and the host records exactly one
\* (question, answer) pair for the turn, on the list it read when the turn
\* began.
C16_OneAssistantMessagePerCompletedTurn ==
    [][(pc = "END" /\ pc' = "idle") =>
          /\ Len(memory') = Len(memory) + 1
          /\ SubSeq(memory', 1, Len(memory)) = memory
          /\ memory'[Len(memory')].type = "ai"
          /\ memory'[Len(memory')].content \in Answers \cup {Fallback}
          /\ shown' = Append(hist_before,
                             <<question, memory'[Len(memory')].content>>)
          /\ ~rebound => chat_histories' = shown']_vars

C16_Witness ==
    /\ pc = "idle"
    /\ turns = 1
    /\ completed >= 1
    /\ shown # <<>>
    /\ shown[Len(shown)][1] = "q1"
    /\ memory # <<>>
    /\ memory[Len(memory)] = AIMessage(shown[Len(shown)][2])
    /\ chat_histories = shown

\* the relation categories in which entities x and y are linked to a common
\* node of the graph
SharedCategories(x, y) ==
    { t \in {"LOAI THUOC", "CHI DINH", "THANH PHAN"} :
        \E a \in 1..Len(Entities) :
            /\ [source |-> x.id, target |-> Entities[a].id, type |-> t] \in neo4j
            /\ [source |-> y.id, target |-> Entities[a].id, type |-> t] \in neo4j }

\* recommend_alternatives ran and found its target
RankedFor(medicine) ==
    /\ tool_run.tool = <<"recommend_alternatives">>
    /\ find_medicine_regex(tool_run.input) # <<>>
    /\ medicine = find_medicine_regex(tool_run.input)[1]

EntityNamed(name) == Entities[CHOOSE a \in 1..Len(Entities) : Entities[a].name = name]

\* the names recommend_alternatives lists, best first
Listed == [i \in 1..Len(Take(tool_run.recs, top_k)) |-> tool_run.recs[i].name]

IsListed(x) == \E i \in 1..Len(Listed) : Listed[i] = x.name

ListedBefore(x, y) ==
    \E i, j \in 1..Len(Listed) : i < j /\ Listed[i] = x.name /\ Listed[j] = y.name

\* C17: recommend_alternatives scores a neighbour by the number of relation
\* categories (type, indication, ingredient) it shares with the target: every
\* score is between 0 and 3, and several shared nodes of one category still
\* give 1 point for it.
C17_ScoreIsSharedCategoryCount ==
    \A t \in 1..Len(Entities) :
        RankedFor(Entities[t]) =>
            \A i \in 1..Len(tool_run.recs) :
                /\ tool_run.recs[i].score \in 0..3
                /\ tool_run.recs[i].score =
                     Cardinality(SharedCategories(Entities[t],
                                                  EntityNamed(tool_run.recs[i].name)))

\* C18: whenever the target shares exactly 2 relation categories with an
\* entity A and exactly 1 with an entity B, A is listed strictly before B; an
\* entity that shares no category with the target is not listed, nor is the
\* target itself.
C18_TwoBeforeOneZeroExcluded ==
    \A t \in 1..Len(Entities) :
        RankedFor(Entities[t]) =>
            /\ ~IsListed(Entities[t])
            /\ \A a, b \in 1..Len(Entities) :
                  LET A == Entities[a]
                      B == Entities[b]
                  IN  /\ (a # t /\ SharedCategories(Entities[t], A) = {}) => ~IsListed(A)
                      /\ ( /\ a # t /\ b # t
                           /\ Cardinality(SharedCategories(Entities[t], A)) = 2
                           /\ Cardinality(SharedCategories(Entities[t], B)) = 1 )
                           => ListedBefore(A, B)

\* the input of the tool function that ran matches nothing in its store: no
\* entity name holds the keyword, no indication edge leads to a node whose
\* name holds one of the keywords, the collection has no passage
NoMatch ==
    IF tool_run.tool \in {<<"search_by_name">>, <<"recommend_alternatives">>}
    THEN \A a \in 1..Len(Entities) :
            ~StrContains(ToLower(Entities[a].name), ToLower(tool_run.input))
    ELSE IF tool_run.tool = <<"recommend_by_indications">>
    THEN \A p \in 1..Len(tool_run.input) : \A a \in 1..Len(Entities) :
            (\E r \in neo4j : r.target = Entities[a].id /\ r.type = "CHI DINH")
                => ~StrContains(ToLower(Entities[a].name), ToLower(tool_run.input[p]))
    ELSE qdrant = <<>>

\* C19: each of the four retrieval tools, run on an input that matches nothing
\* in its store, raises nothing and returns an empty-equivalent value (an
\* empty text or an empty list); that value is one the Executor records as
\* the step's result, and three such results make the forced-stop check fire:
\* none of them counts as useful.
C19_NoMatchIsEmptyNotUseful ==
    (tool_run.tool \in tools /\ NoMatch) =>
        /\ tool_run.out.type \in {"str", "list"}
        /\ tool_run.out.v = <<>>
        /\ ~Truthy(tool_run.out)
        /\ tool_run.out \in ToolReturns(tool_run.tool)
        /\ ForceEnd(max_attempts - 1,
                    [i \in 1..max_attempts |->
                        [tool |-> tool_run.tool, query |-> <<>>,
                         result |-> tool_run.out]])

C19_Witness ==
    /\ tool_run.tool = <<"recommend_alternatives">>
    /\ tool_run.input = <<"x">>
    /\ NoMatch
    /\ neo4j # {}
    /\ tool_run.out = PyList(<<>>)

\* C20: once the forced stop is set (3 steps done, none useful) no further
\* plan step is executed: also for a plan longer than 3 the cursor stays at
\* 3, the results keep exactly 3 entries, control is out of the Executor and
\* no tool is invoked any more in the turn.
C20_ForcedStopEndsExecution ==
    ("force_end" \in keys /\ force_end) =>
        /\ current_index = max_attempts
        /\ Len(results) = max_attempts
        /\ Len(calls) = max_attempts
        /\ pc \in {"Summarizer", "END", "raised"}
        /\ pc = "raised" => raised_in = "Summarizer"

C20_Witness ==
    /\ "force_end" \in keys
    /\ force_end
    /\ Len(plan) = 4
    /\ pc = "END"
    /\ current_index = 3
    /\ Len(calls) = 3

\* C21: in every state of a turn 0 <= cursor <= len(plan); within a turn the
\* cursor never decreases, a step that is executed (its result appended)
\* raises it by exactly one, and every other step of the turn, the Executor
\* entry with the plan exhausted among them, leaves it as it is.
C21_CursorBoundedMonotone ==
    [][/\ "current_index" \in keys' =>
             (0 <= current_index' /\ current_index' <= Len(plan'))
       /\ ("current_index" \in keys /\ "current_index" \in keys') =>
             /\ current_index' >= current_index
             /\ results' # results => current_index' = current_index + 1
             /\ results' = results => current_index' = current_index]_vars

C21_Witness ==
    /\ pc = "END"
    /\ Len(plan) = 4
    /\ current_index = 4
    /\ Len(results) = 4
    /\ ~force_end

\* C22: after the Planner and after every completed Executor step the length
\* of the results buffer equals the cursor.
C22_ResultsLengthIsCursor ==
    "results" \in keys => Len(results) = current_index

C22_Witness ==
    /\ pc = "Executor"
    /\ "results" \in keys
    /\ Len(results) = 2
    /\ current_index = 2
    /\ Len(plan) = 4

\* C23: steps run in plan order, one at a time: a tool is invoked only for
\* the step right after the results appended so far, at every moment the i-th
\* entry of the results buffer carries the tool name and the query of the
\* i-th plan step, and an entry once appended is neither modified nor
\* removed while the turn lasts.
C23_StepsInPlanOrder ==
    [][("results" \in keys /\ "results" \in keys') =>
          /\ Len(results') \in {Len(results), Len(results) + 1}
          /\ SubSeq(results', 1, Len(results)) = results
          /\ Len(results') <= Len(plan')
          /\ \A i \in 1..Len(results') :
                /\ results'[i].tool = plan'[i].tool
                /\ results'[i].query = plan'[i].query
          /\ calls' # calls =>
                /\ Len(calls') = Len(calls) + 1
                /\ calls'[Len(calls')].tool = plan[Len(results) + 1].tool]_vars

C23_Witness ==
    /\ pc = "Executor"
    /\ Len(plan) = 4
    /\ Len(results) = 3
    /\ Len(calls) = 2
    /\ plan[1].tool # plan[2].tool
    /\ \A i \in 1..3 : results[i].tool = plan[i].tool /\ results[i].query = plan[i].query

\* the Executor stands before a recommend_by_indications step whose query is
\* not a JSON array
AtUndecodableStep ==
    /\ pc = "Executor"
    /\ current_index < Len(plan)
    /\ plan[current_index + 1].tool = <<"recommend_by_indications">>
    /\ ~IsJsonStrList(plan[current_index + 1].query)

\* C24: a recommend_by_indications step whose query is not a valid JSON array
\* does not abort the turn: a result is recorded for the step, the cursor
\* advances and the turn goes on towards its final answer.
C24_UndecodableQueryAbsorbed ==
    [][(AtUndecodableStep /\ (pc' # pc \/ results' # results)) =>
          /\ pc' \in {"Executor", "Summarizer"}
          /\ Len(results') = Len(results) + 1
          /\ results'[Len(results')].tool = <<"recommend_by_indications">>
          /\ current_index' = current_index + 1]_vars

\* Executor entries of the turn whose step was recorded or found the plan
\* exhausted
ExecutorEntries == Len(results) + (IF done THEN 1 ELSE 0)

\* a capability call or a tool call of the turn did not return
CallFailed ==
    /\ pc = "raised"
    /\ \/ raised_in \in {"Planner", "Summarizer"}
       \/ raised_in = "Executor" /\ Len(calls) > Len(SelectSeq(results, LAMBDA r : r.tool \in tools))

\* C25: a turn in which every capability call and every tool call returns
\* terminates: the Executor is entered at most max(1, len(plan)) times, at
\* most len(plan) tools are invoked, and the turn is not ended otherwise than
\* with a final answer, that is, it never ends by an exception.
C25_TurnWithReturningCallsEndsWithAnswer ==
    /\ HasPlan =>
          /\ ExecutorEntries <= (IF Len(plan) = 0 THEN 1 ELSE Len(plan))
          /\ Len(calls) <= Len(plan)
    /\ pc = "raised" => CallFailed
    /\ pc = "END" => "final_answer" \in keys /\ final_answer \in Answers \cup {Fallback}

\* C26: in a turn that stops by plan exhaustion the Summarizer is invoked
\* exactly once and only after the last tool invocation of the turn; its
\* context lists every entry of the final results buffer, in buffer order;
\* once summarization has started no tool is invoked and no result is added.
C26_SummarizedOnceOverFinalResults ==
    (HasPlan /\ ~("force_end" \in keys /\ force_end)) =>
        /\ summaries <= 1
        /\ pc \in {"Planner", "Executor", "Summarizer"} => summaries = 0
        /\ pc = "END" => summaries = 1
        /\ summaries = 1 =>
              /\ pc \in {"END", "raised"}
              /\ current_index >= Len(plan)
              /\ Len(context) = Len(results)
              /\ \A i \in 1..Len(results) :
                    context[i] = <<results[i].query, results[i].result>>
              /\ Len(calls) = Len(SelectSeq(results, LAMBDA r : r.tool \in tools))

C26_Witness ==
    /\ pc = "END"
    /\ summaries = 1
    /\ ~force_end
    /\ Len(plan) = 3
    /\ Len(results) = 3
    /\ Len(calls) = 2
    /\ Len(context) = 3

\* C27: the chat_history of a turn is an immutable snapshot taken when the
\* turn starts: whatever is appended to the memory afterwards, by the turn,
\* by another turn of the session or after a reset, the sequence the Planner
\* and the Summarizer read under the key stays the same for the whole turn.
C27_HistoryIsImmutableSnapshot ==
    [][("chat_history" \in keys /\ "chat_history" \in keys') =>
          chat_history' = chat_history]_vars

\* C28: the history handed to the Planner and the Summarizer of a turn holds
\* only the messages of the prior turns of the session, in append order (the
\* memory as it was before the turn began); the question of the turn itself
\* is passed as the question and is no element of that history.
C28_HistoryIsPriorTurnsOnly ==
    pc \in {"Planner", "Summarizer"} => chat_history = mem_before

\* C29: turn state is not shared across turns. A turn starts from a state
\* dict that holds the question and the history only: no plan, no result, the
\* cursor at 0, no force_end flag, no final answer. Whatever the Executor and
\* the Summarizer of the turn then see is of that turn: each result is the
\* result of the step of this turn's plan at its position, the force_end flag
\* is the one computed from these results, and the final answer is the
\* fallback of this turn's forced stop until this turn's summary replaces it.
C29_TurnStateIsFresh ==
    /\ pc = "Planner" =>
          /\ keys = {"question", "chat_history"}
          /\ plan = <<>> /\ results = <<>> /\ current_index = 0
          /\ ~force_end /\ final_answer = NoneVal /\ ~done
          /\ calls = <<>> /\ summaries = 0
    /\ pc \in {"Executor", "Summarizer", "END"} =>
          /\ Len(results) <= Len(plan)
          /\ \A i \in 1..Len(results) :
                /\ results[i].tool = plan[i].tool
                /\ results[i].query = plan[i].query
          /\ "force_end" \in keys <=> results # <<>>
          /\ "final_answer" \in keys <=> results # <<>> \/ pc = "END"
          /\ results # <<>> => force_end = ForceEnd(Len(results) - 1, results)
          /\ results = <<>> => ~force_end
          /\ pc # "END" => final_answer = IF force_end THEN Fallback ELSE NoneVal
          /\ pc = "END" => final_answer \in Answers

\* the second turn of a session, after a first turn that completed: its one
\* step is executed and the Summarizer is about to read the one result
C29_Witness ==
    /\ turns = 2 /\ completed = 1 /\ Len(memory) = 3
    /\ pc = "Summarizer" /\ Len(plan) = 1 /\ Len(results) = 1
    /\ ~force_end /\ final_answer = NoneVal

\* the names of the entries of a tool's text, in the order of the text: an
\* entry is "Ten: <name> Mieu ta ngan: ..."
NameAt(v, i) ==
    LET j == CHOOSE j \in (i + 2)..Len(v) :
                 /\ v[j] = " " /\ v[j + 1] = "Mieu ta ngan:"
                 /\ \A k \in (i + 2)..(j - 1) : v[k] # " "
    IN  SubSeq(v, i + 2, j - 1)

OutputNames(v) ==
    LET at == SelectSeq([i \in 1..Len(v) |-> i], LAMBDA i : v[i] = "Ten:")
    IN  [k \in 1..Len(at) |-> NameAt(v, at[k])]

\* the medicines the graph queries of recommend_alternatives returned for the
\* target, in the order they returned them, the target left out
ReturnedFor(medicine) ==
    LET back(rel_type) ==
            Alts(neo4j, find_relations(neo4j, medicine.id, rel_type, "out"), rel_type)
    IN  SelectSeq(back("LOAI THUOC") \o back("CHI DINH") \o back("THANH PHAN"),
                  LAMBDA m : m.id # medicine.id)

\* where a name is returned first
FirstAt(listing, name) ==
    CHOOSE i \in 1..Len(listing) :
        /\ listing[i].name = name
        /\ \A j \in 1..(i - 1) : listing[j].name # name

\* the name x goes before the name y in a ranking of the listing: a higher
\* score, or the same score and returned earlier
RanksBefore(listing, x, y) ==
    \/ Score(listing, x) > Score(listing, y)
    \/ /\ Score(listing, x) = Score(listing, y)
       /\ FirstAt(listing, x) < FirstAt(listing, y)

\* C30: the ranking of recommend_alternatives and recommend_by_indications is
\* a stable sort on the score alone and the text lists at most top_k (5)
\* entries. For recommend_alternatives the entries are the best-ranked names
\* the graph queries returned: of two entries the one with the higher score
\* comes first, two entries of equal score come in the order in which the
\* queries returned them first, and every name left out ranks after every
\* entry. For recommend_by_indications the entries are the first rows of the
\* graph query in the order of the query, whose match counts do not increase.
C30_StableRankingTopK ==
    LET out == OutputNames(tool_run.out.v)
    IN  /\ \A t \in 1..Len(Entities) :
              RankedFor(Entities[t]) =>
                  LET listing == ReturnedFor(Entities[t])
                      names   == { listing[i].name : i \in 1..Len(listing) }
                  IN  /\ Len(out) <= top_k
                      /\ Len(out) = IF Cardinality(names) < top_k
                                    THEN Cardinality(names) ELSE top_k
                      /\ \A i \in 1..Len(out) : out[i] \in names
                      /\ \A i, j \in 1..Len(out) :
                            i < j => RanksBefore(listing, out[i], out[j])
                      /\ \A x \in names :
                            (\A i \in 1..Len(out) : out[i] # x) =>
                                \A i \in 1..Len(out) : RanksBefore(listing, out[i], x)
        /\ tool_run.tool = <<"recommend_by_indications">> =>
              LET rows == find_medicines_by_indications(neo4j, tool_run.input)
              IN  /\ Len(out) <= top_k
                  /\ out = [i \in 1..(IF Len(rows) < top_k THEN Len(rows) ELSE top_k) |->
                               rows[i].medicine.name]
                  /\ \A i, j \in 1..Len(rows) :
                        i < j => rows[i].match_count >= rows[j].match_count

\* recommend_alternatives ran on a graph in which the queries returned more
\* than top_k names: two of the entries listed tie and come in the order of
\* the queries, which is not the order of the nodes, and the last entry ties
\* with the first name left out
C30_Witness ==
    /\ tool_run.tool = <<"recommend_alternatives">>
    /\ Len(tool_run.recs) > top_k
    /\ Len(OutputNames(tool_run.out.v)) = top_k
    /\ tool_run.recs[top_k].score = tool_run.recs[top_k + 1].score
    /\ \E i, j \in 1..top_k :
          /\ i < j
          /\ tool_run.recs[i].score = tool_run.recs[j].score
          /\ EntityNamed(tool_run.recs[i].name).id[2] > EntityNamed(tool_run.recs[j].name).id[2]

\* the indication nodes of entity d that hold at least one of the keywords
MatchedIndications(d, indications) ==
    { a \in 1..Len(Entities) :
        /\ [source |-> d.id, target |-> Entities[a].id, type |-> "CHI DINH"] \in neo4j
        /\ \E p \in 1..Len(indications) :
              StrContains(ToLower(Entities[a].name), ToLower(indications[p])) }

\* C31: recommend_by_indications counts, for each entity, the distinct
\* indication nodes that match at least one keyword (a node matched by two
\* keywords counts once); the rows are the entities whose count reaches
\* min_match, each with that count, ordered by count descending.
C31_CountsDistinctIndications ==
    tool_run.tool = <<"recommend_by_indications">> =>
        LET rows == tool_run.recs
        IN  /\ \A a \in 1..Len(Entities) :
                  (Cardinality(MatchedIndications(Entities[a], tool_run.input)) >= min_match)
                      <=> \E i \in 1..Len(rows) : rows[i].medicine = Entities[a]
            /\ \A i \in 1..Len(rows) :
                  rows[i].match_count =
                      Cardinality(MatchedIndications(rows[i].medicine, tool_run.input))
            /\ \A i, j \in 1..Len(rows) :
                  i < j => rows[i].match_count >= rows[j].match_count

\* the plan of the turn begins with three steps that name no registry tool
ThreeUnknownTools ==
    /\ "plan" \in keys /\ Len(plan) >= max_attempts
    /\ \A i \in 1..max_attempts : plan[i].tool \notin tools

\* C32: the result synthesized for an unknown tool is a non-empty text and
\* counts as useful in the forced-stop check. In a turn whose plan begins
\* with three unknown tools each of these steps is recorded with that text,
\* none of them raises, the forced stop does not fire and no fallback answer
\* is set; the Executor is left for the Summarizer only with the plan
\* exhausted, and a turn that ends was summarized once.
C32_UnknownToolResultIsUseful ==
    /\ \A i \in 1..Len(results) :
          results[i].tool \notin tools =>
              /\ results[i].result = NotFound(results[i].tool)
              /\ results[i].result.type = "str"
              /\ Truthy(results[i].result)
    /\ ThreeUnknownTools =>
          /\ \A i \in 1..Len(results) :
                i <= max_attempts => results[i].result = NotFound(plan[i].tool)
          /\ ~force_end
          /\ final_answer # Fallback
          /\ pc = "raised" => raised_in = "Summarizer" \/ current_index >= max_attempts
          /\ pc \in {"Summarizer", "END"} =>
                current_index = Len(plan) /\ Len(results) = Len(plan)
          /\ pc = "END" => summaries = 1 /\ final_answer \in Answers

\* a turn planned with exactly three steps, all on unknown tools, has ended:
\* three results, no forced stop, one summary
C32_Witness ==
    /\ ThreeUnknownTools /\ Len(plan) = max_attempts
    /\ pc = "END" /\ Len(results) = max_attempts /\ current_index = max_attempts
    /\ "force_end" \in keys /\ ~force_end
    /\ summaries = 1

\* C33: host and core stay consistent. Whenever no turn of the session is in
\* flight, after any completed turns, failed turns and resets, the memory
\* holds twice as many messages as the host's chat history holds pairs, and
\* the i-th pair is (content of message 2i-1, content of message 2i).
C33_HostAndCoreConsistent ==
    pc = "idle" =>
        /\ Len(memory) = 2 * Len(chat_histories)
        /\ \A i \in 1..Len(chat_histories) :
              chat_histories[i] = <<memory[2 * i - 1].content, memory[2 * i].content>>

\* C34: in every state of a session, under any interleaving of turns, failed
\* turns and resets (a reset during a turn in flight included), the memory
\* alternates and starts with a user message: user messages at the odd
\* positions, assistant messages at the even ones, so that no assistant
\* message is in the memory without its turn's user message right before it.
C34_MemoryAlternates ==
    \A i \in 1..Len(memory) :
        memory[i].type = IF i % 2 = 1 THEN "human" ELSE "ai"

=============================================================================
